---- MODULE Spec2Model ----
(***************************************************************************)
(* Model of preprocessing.py (class Preprocessing): a batch run that       *)
(* parses the command line, loads one text column, applies the transform   *)
(* pipeline, emits a bag-of-words table, counts types and tokens and       *)
(* writes the transformed column.  Text values are sequences of            *)
(* one-character strings.                                                  *)
(***************************************************************************)
EXTENDS Integers, Sequences, FiniteSets, TLC

\* ------------------------------------------------------------------ bounds
MaxRows == 2        \* rows of the input table
MaxLen == 5         \* length of the strings given to remove_punctuation alone

\* -------------------------------------------------------------- characters
NL == "\n"
DQ == "\""
Digits == {"0", "1", "2", "3", "4", "5", "6", "7", "8", "9"}
DigitChars == <<"0", "1", "2", "3", "4", "5", "6", "7", "8", "9">>
UpperCase == {"A", "D", "S"}
LowerCase == {"a", "d", "s"}
\* \w of the re module: letters, digits and the underscore
WordChars == UpperCase \cup LowerCase \cup Digits \cup {"_"}
\* \s of the re module, and the separators of str.split()
WhiteSpace == {" ", NL}

\* str.lower() on one character
ToLower(c) ==
  CASE c = "A" -> "a"
    [] c = "D" -> "d"
    [] c = "S" -> "s"
    [] OTHER -> c

\* ------------------------------------------------------ per-value functions
\* line 60: x.lower()
lowercase_str(x) == [i \in 1..Len(x) |-> ToLower(x[i])]

\* line 81: re.sub(r'\d+', '', x)
remove_numbers_str(x) == SelectSeq(x, LAMBDA c : c \notin Digits)

\* line 67: (?<!\w)-(?!\w)|[^\w\s-]  matches the character at position i of x
pattern(x, i) ==
  LET c == x[i]
      wordBefore == i > 1 /\ x[i - 1] \in WordChars
      wordAfter == i < Len(x) /\ x[i + 1] \in WordChars
  IN  \/ c = "-" /\ ~wordBefore /\ ~wordAfter
      \/ c \notin WordChars /\ c \notin WhiteSpace /\ c # "-"

RECURSIVE sub_pattern(_, _)
\* line 69: re.sub(pattern, '', str(x)), scanning x from position i
sub_pattern(x, i) ==
  IF i > Len(x) THEN <<>>
  ELSE (IF pattern(x, i) THEN <<>> ELSE <<x[i]>>) \o sub_pattern(x, i + 1)

\* line 72: \s{2} matches at position i of x
double_space_re(x, i) ==
  i < Len(x) /\ x[i] \in WhiteSpace /\ x[i + 1] \in WhiteSpace

RECURSIVE sub_double_space(_, _)
\* lines 73-74: str.replace(double_space_re, ' '): non-overlapping matches,
\* left to right, one pass
sub_double_space(x, i) ==
  IF i > Len(x) THEN <<>>
  ELSE IF double_space_re(x, i) THEN <<" ">> \o sub_double_space(x, i + 2)
  ELSE <<x[i]>> \o sub_double_space(x, i + 1)

\* the two steps in the wrong order
remove_punctuation_swapped(x) == sub_pattern(sub_double_space(x, 1), 1)

\* lines 62-74 on one value
remove_punctuation_str(x) == sub_double_space(sub_pattern(x, 1), 1)

RECURSIVE split_from(_, _, _)
\* str.split(): the maximal runs of non-whitespace characters of s
split_from(s, i, cur) ==
  IF i > Len(s) THEN (IF cur = <<>> THEN <<>> ELSE <<cur>>)
  ELSE IF s[i] \in WhiteSpace
       THEN (IF cur = <<>> THEN <<>> ELSE <<cur>>) \o split_from(s, i + 1, <<>>)
       ELSE split_from(s, i + 1, Append(cur, s[i]))

split(s) == split_from(s, 1, <<>>)

RECURSIVE join(_)
\* ' '.join(words)
join(words) ==
  IF Len(words) = 0 THEN <<>>
  ELSE IF Len(words) = 1 THEN words[1]
  ELSE words[1] \o <<" ">> \o join(Tail(words))

\* line 88: the entries of stopwords.words('english') spelled with the
\* model's letters
stopwords_en == {<<"a">>, <<"d">>, <<"s">>, <<"a", "s">>}

\* lines 90-93
remove_stop_words(phrase) ==
  join(SelectSeq(split(phrase), LAMBDA w : lowercase_str(w) \notin stopwords_en))

\* PorterStemmer.stem on words spelled with the model's letters: lower-case,
\* words of at most two letters unchanged, then step 1a (ss -> ss, s -> "");
\* no other rule of the algorithm has a suffix over these letters
stem(w) ==
  LET s == lowercase_str(w)
      n == Len(s)
  IN  IF n <= 2 THEN s
      ELSE IF s[n] = "s" /\ s[n - 1] = "s" THEN s
      ELSE IF s[n] = "s" THEN SubSeq(s, 1, n - 1)
      ELSE s

\* lines 104-107
stem_phrase(phrase) ==
  join([i \in 1..Len(split(phrase)) |-> stem(split(phrase)[i])])

\* the WordNet nouns among the forms the model's texts produce
wordnet_nouns == {<<"a">>, <<"d">>, <<"a", "d">>, <<"d", "a", "d">>}

\* WordNetLemmatizer.lemmatize(w): the shortest WordNet noun among w and w
\* without a final s, or w itself when there is none
lemmatize(w) ==
  LET n == Len(w)
      forms == {w} \cup (IF n > 1 /\ w[n] = "s" THEN {SubSeq(w, 1, n - 1)} ELSE {})
      lemmas == forms \cap wordnet_nouns
  IN  IF lemmas = {} THEN w
      ELSE CHOOSE l \in lemmas : \A m \in lemmas : Len(l) <= Len(m)

\* lines 119-122
lemmatize_phrase(phrase) ==
  join([i \in 1..Len(split(phrase)) |-> lemmatize(split(phrase)[i])])

\* -------------------------------------------------------- column functions
\* line 60: Series.str.lower()
lowercase_col(col) == [i \in 1..Len(col) |-> lowercase_str(col[i])]

\* lines 80-81: Series.apply
remove_numbers_col(col) == [i \in 1..Len(col) |-> remove_numbers_str(col[i])]

\* lines 68-74: Series.apply, then Series.str.replace
remove_punctuation_col(col) == [i \in 1..Len(col) |-> remove_punctuation_str(col[i])]

\* a stage that drops the rows it empties
remove_stopwords_dropping(col) ==
  SelectSeq([i \in 1..Len(col) |-> remove_stop_words(col[i])], LAMBDA x : x # <<>>)

\* lines 95-96: Series.apply
remove_stopwords_col(col) == [i \in 1..Len(col) |-> remove_stop_words(col[i])]

\* lines 109-110: Series.apply
stem_words_col(col) == [i \in 1..Len(col) |-> stem_phrase(col[i])]

\* lines 124-125: Series.apply
lemmatize_words_col(col) == [i \in 1..Len(col) |-> lemmatize_phrase(col[i])]

\* ------------------------------------------------------------ bag of words
RECURSIVE stack(_)
\* lines 131-132: str.split(expand=True).stack(): the tokens of all rows, row
\* by row, the padding of the short rows dropped
stack(col) == IF col = <<>> THEN <<>> ELSE split(Head(col)) \o stack(Tail(col))

RECURSIVE unique(_, _)
\* the distinct values of tokens, in the order they first occur
unique(tokens, seen) ==
  IF tokens = <<>> THEN <<>>
  ELSE IF Head(tokens) \in seen THEN unique(Tail(tokens), seen)
  ELSE <<Head(tokens)>> \o unique(Tail(tokens), seen \cup {Head(tokens)})

RECURSIVE insert_ascending(_, _)
\* an ascending sort step
insert_ascending(sorted, e) ==
  IF sorted = <<>> THEN <<e>>
  ELSE IF Head(sorted).count <= e.count
       THEN <<Head(sorted)>> \o insert_ascending(Tail(sorted), e)
       ELSE <<e>> \o sorted

RECURSIVE insert_descending(_, _)
\* sort_values(ascending=False), one step: e goes behind the entries that
\* count at least as much
insert_descending(sorted, e) ==
  IF sorted = <<>> THEN <<e>>
  ELSE IF Head(sorted).count >= e.count
       THEN <<Head(sorted)>> \o insert_descending(Tail(sorted), e)
       ELSE <<e>> \o sorted

RECURSIVE sort_values(_, _)
sort_values(entries, acc) ==
  IF entries = <<>> THEN acc
  ELSE sort_values(Tail(entries), insert_descending(acc, Head(entries)))

\* line 132: Series.value_counts(): one entry per distinct value with the
\* number of its occurrences, sorted by descending count
value_counts(tokens) ==
  LET keys == unique(tokens, {})
      entries == [k \in 1..Len(keys) |->
                    [word |-> keys[k],
                     count |-> Cardinality({i \in 1..Len(tokens) : tokens[i] = keys[k]})]]
  IN  sort_values(entries, <<>>)

\* --------------------------------------------------------- token accounting
\* a dictionary with no key
EmptyDict == [t \in {} |-> 0]

\* a counter that starts again at 1 on every occurrence
count_token_reset(st, token) ==
  [types |-> st.types \cup {token},
   all_tokens |-> IF token \notin DOMAIN st.all_tokens
                  THEN st.all_tokens @@ (token :> 1)
                  ELSE [st.all_tokens EXCEPT ![token] = 1]]

\* lines 148-154: the body of the loop over the tokens
count_token(st, token) ==
  [types |-> st.types \cup {token},
   all_tokens |-> IF token \notin DOMAIN st.all_tokens
                  THEN st.all_tokens @@ (token :> 1)
                  ELSE [st.all_tokens EXCEPT ![token] = @ + 1]]

RECURSIVE count_tokens_loop(_, _)
\* lines 145-154: for token in tokens
count_tokens_loop(st, tokens) ==
  IF tokens = <<>> THEN st
  ELSE count_tokens_loop(count_token(st, Head(tokens)), Tail(tokens))

\* ------------------------------------------------------------ output writer
RECURSIVE decimal(_)
\* the decimal digits of the row index i
decimal(i) ==
  IF i < 10 THEN <<DigitChars[i + 1]>>
  ELSE decimal(i \div 10) \o <<DigitChars[(i % 10) + 1]>>

RECURSIVE double_quotes(_)
double_quotes(x) ==
  IF x = <<>> THEN <<>>
  ELSE (IF Head(x) = DQ THEN <<DQ, DQ>> ELSE <<Head(x)>>) \o double_quotes(Tail(x))

\* csv.writer with QUOTE_MINIMAL and lineterminator '\n': a field holding the
\* delimiter, the quote character or a line break is written in quotes
csv_field(x) ==
  IF \E i \in 1..Len(x) : x[i] \in {",", DQ, NL}
  THEN <<DQ>> \o double_quotes(x) \o <<DQ>>
  ELSE x

RECURSIVE to_csv(_, _)
\* line 177: Series.to_csv(filename, index=True, header=False), from row i on
to_csv(col, i) ==
  IF i > Len(col) THEN <<>>
  ELSE decimal(i - 1) \o <<",">> \o csv_field(col[i]) \o <<NL>> \o to_csv(col, i + 1)

\* -------------------------------------------------------------------- state
VARIABLES
  argv,               \* sys.argv[1:]: each option absent, given (on) or negated (off)
  pc,                 \* the statement the run is at
  exit_status,        \* {} while running, else the status the process exited with
  output_dir_before,  \* whether the output directory existed when the run began
  output_dir_exists,  \* whether the output directory exists
  written,            \* the files the run has written
  inputs,             \* self.inputs: the parsed flags
  data,               \* the text column as read_csv and fillna loaded it
  loaded,             \* whether data.csv has been read
  df,                 \* self.df[self.column_name]
  trace,              \* the methods main has run to completion, in order
  row,                \* rows the counting pass has visited
  types,              \* self.types
  all_tokens,         \* self.all_tokens
  bow,                \* self.bow
  bow_csv,            \* content of <date>_bow.csv
  txt_file,           \* content of <date><argv>.txt
  fn_in,              \* a value given to remove_punctuation on its own
  fn_out,             \* remove_punctuation of fn_in
  fn_twice,           \* remove_punctuation of fn_out
  fn_pc               \* how many times remove_punctuation has been applied

vars == <<argv, pc, exit_status, output_dir_before, output_dir_exists, written,
          inputs, data, loaded, df, trace, row, types, all_tokens, bow, bow_csv,
          txt_file, fn_in, fn_out, fn_twice, fn_pc>>

fs_vars == <<output_dir_before, output_dir_exists, written, bow_csv, txt_file>>
count_vars == <<row, types, all_tokens>>
fn_vars == <<fn_in, fn_out, fn_twice, fn_pc>>

\* ------------------------------------------------------------------- inputs
AD1530 == <<"A", "D", " ", "1", "5", "3", "0", "-", "1">>

\* the values a cell of the text column is drawn from
SampleTexts ==
  { <<>>,
    AD1530,
    <<"a">>,
    <<"a", NL, "A", "d">>,
    <<"D", "a", "d", "s", ",", " ", "a", "d", "s", ".">>,
    <<"a", "d", " ", "a", "d", " ", "d", "a", "d">>,
    <<"-", "a", "d", " ", " ", "-", " ", "d", "-">> }

Tables == UNION {[1..n -> SampleTexts] : n \in 1..MaxRows}

OptionForms == {"absent", "on", "off"}

FnAlphabet == {"a", "-", ".", " ", NL}
FnStrings == UNION {[1..n -> FnAlphabet] : n \in 0..MaxLen}

\* lines 43-50: default=False for the three options
DefaultInputs == [stop |-> FALSE, stem |-> FALSE, lemma |-> FALSE]

\* ---------------------------------------------------------- initial states
\* a run of the script: the process starts at the first statement of __init__
Init ==
  /\ argv \in [stop : OptionForms, stem : OptionForms, lemma : OptionForms]
  /\ output_dir_before \in BOOLEAN
  /\ output_dir_exists = output_dir_before
  /\ pc = "mkdir"
  /\ exit_status = {}
  /\ written = {}
  /\ inputs = DefaultInputs
  /\ data = <<>>
  /\ loaded = FALSE
  /\ df = <<>>
  /\ trace = <<>>
  /\ row = 0
  /\ types = {}
  /\ all_tokens = EmptyDict
  /\ bow = <<>>
  /\ bow_csv = <<>>
  /\ txt_file = <<>>
  /\ fn_in = <<>>
  /\ fn_out = <<>>
  /\ fn_twice = <<>>
  /\ fn_pc = 0

\* ------------------------------------------------------------------ __init__
\* an __init__ that parses the flags without making the directory
init_mkdir_skipped ==
  /\ pc = "mkdir"
  /\ pc' = "parse_args"
  /\ UNCHANGED <<argv, exit_status, inputs, data, loaded, df, trace, bow>>
  /\ UNCHANGED fs_vars
  /\ UNCHANGED count_vars
  /\ UNCHANGED fn_vars

\* lines 24-27: the output directory is made when it does not exist
init_mkdir ==
  /\ pc = "mkdir"
  /\ output_dir_exists' = TRUE
  /\ pc' = "parse_args"
  /\ UNCHANGED <<argv, exit_status, output_dir_before, written, inputs, data,
                 loaded, df, trace, bow, bow_csv, txt_file>>
  /\ UNCHANGED count_vars
  /\ UNCHANGED fn_vars

\* the mutually exclusive group of lines 46-50: an option of the group counts
\* as given in its negated form too
parse_conflict(av) == av.stem # "absent" /\ av.lemma # "absent"

\* a parser without the group
parse_args_no_group ==
  /\ pc = "parse_args"
  /\ inputs' = [stop |-> argv.stop = "on", stem |-> argv.stem = "on",
                lemma |-> argv.lemma = "on"]
  /\ pc' = "read_csv"
  /\ UNCHANGED <<argv, exit_status, data, loaded, df, trace, bow>>
  /\ UNCHANGED fs_vars
  /\ UNCHANGED count_vars
  /\ UNCHANGED fn_vars

\* lines 29, 36-54: parser.parse_args() exits with status 2 on a conflict
parse_args ==
  /\ pc = "parse_args"
  /\ IF parse_conflict(argv)
     THEN /\ exit_status' = {2}
          /\ pc' = "exit"
          /\ UNCHANGED inputs
     ELSE /\ inputs' = [stop |-> argv.stop = "on", stem |-> argv.stem = "on",
                        lemma |-> argv.lemma = "on"]
          /\ pc' = "read_csv"
          /\ UNCHANGED exit_status
  /\ UNCHANGED <<argv, data, loaded, df, trace, bow>>
  /\ UNCHANGED fs_vars
  /\ UNCHANGED count_vars
  /\ UNCHANGED fn_vars

\* lines 30-34, 181-182: the table is read, the counters are emptied and main
\* is entered
init_read_csv ==
  /\ pc = "read_csv"
  /\ \E table \in Tables :
       /\ data' = table
       /\ df' = table
  /\ loaded' = TRUE
  /\ all_tokens' = EmptyDict
  /\ types' = {}
  /\ pc' = "lowercase"
  /\ UNCHANGED <<argv, exit_status, inputs, trace, row, bow>>
  /\ UNCHANGED fs_vars
  /\ UNCHANGED fn_vars

\* ---------------------------------------------------------------------- main
\* main with remove_punctuation ahead of remove_numbers
main_next_swapped(cur) ==
  CASE cur = "lowercase" -> "remove_punctuation"
    [] cur = "remove_punctuation" -> "remove_numbers"
    [] cur = "remove_numbers" ->
         IF inputs.stop THEN "remove_stopwords"
         ELSE IF inputs.stem THEN "stem_words"
         ELSE IF inputs.lemma THEN "lemmatize_words"
         ELSE "create_bow"
    [] cur = "remove_stopwords" ->
         IF inputs.stem THEN "stem_words"
         ELSE IF inputs.lemma THEN "lemmatize_words"
         ELSE "create_bow"
    [] cur = "stem_words" ->
         IF inputs.lemma THEN "lemmatize_words" ELSE "create_bow"
    [] cur = "lemmatize_words" -> "create_bow"
    [] cur = "create_bow" -> "count_types_and_tokens"
    [] cur = "count_types_and_tokens" -> "write"
    [] OTHER -> "exit"

\* lines 158-177: the statement main runs after the call cur has returned
main_next(cur) ==
  CASE cur = "lowercase" -> "remove_numbers"
    [] cur = "remove_numbers" -> "remove_punctuation"
    [] cur = "remove_punctuation" ->
         IF inputs.stop THEN "remove_stopwords"
         ELSE IF inputs.stem THEN "stem_words"
         ELSE IF inputs.lemma THEN "lemmatize_words"
         ELSE "create_bow"
    [] cur = "remove_stopwords" ->
         IF inputs.stem THEN "stem_words"
         ELSE IF inputs.lemma THEN "lemmatize_words"
         ELSE "create_bow"
    [] cur = "stem_words" ->
         IF inputs.lemma THEN "lemmatize_words" ELSE "create_bow"
    [] cur = "lemmatize_words" -> "create_bow"
    [] cur = "create_bow" -> "count_types_and_tokens"
    [] cur = "count_types_and_tokens" -> "write"
    [] OTHER -> "exit"

\* lines 56-60
lowercase ==
  /\ pc = "lowercase"
  /\ df' = lowercase_col(df)
  /\ trace' = Append(trace, "lowercase")
  /\ pc' = main_next("lowercase")
  /\ UNCHANGED <<argv, exit_status, inputs, data, loaded, bow>>
  /\ UNCHANGED fs_vars
  /\ UNCHANGED count_vars
  /\ UNCHANGED fn_vars

\* lines 76-81
remove_numbers ==
  /\ pc = "remove_numbers"
  /\ df' = remove_numbers_col(df)
  /\ trace' = Append(trace, "remove_numbers")
  /\ pc' = main_next("remove_numbers")
  /\ UNCHANGED <<argv, exit_status, inputs, data, loaded, bow>>
  /\ UNCHANGED fs_vars
  /\ UNCHANGED count_vars
  /\ UNCHANGED fn_vars

\* lines 62-74
remove_punctuation ==
  /\ pc = "remove_punctuation"
  /\ df' = remove_punctuation_col(df)
  /\ trace' = Append(trace, "remove_punctuation")
  /\ pc' = main_next("remove_punctuation")
  /\ UNCHANGED <<argv, exit_status, inputs, data, loaded, bow>>
  /\ UNCHANGED fs_vars
  /\ UNCHANGED count_vars
  /\ UNCHANGED fn_vars

\* lines 83-96
remove_stopwords ==
  /\ pc = "remove_stopwords"
  /\ df' = remove_stopwords_col(df)
  /\ trace' = Append(trace, "remove_stopwords")
  /\ pc' = main_next("remove_stopwords")
  /\ UNCHANGED <<argv, exit_status, inputs, data, loaded, bow>>
  /\ UNCHANGED fs_vars
  /\ UNCHANGED count_vars
  /\ UNCHANGED fn_vars

\* lines 98-110
stem_words ==
  /\ pc = "stem_words"
  /\ df' = stem_words_col(df)
  /\ trace' = Append(trace, "stem_words")
  /\ pc' = main_next("stem_words")
  /\ UNCHANGED <<argv, exit_status, inputs, data, loaded, bow>>
  /\ UNCHANGED fs_vars
  /\ UNCHANGED count_vars
  /\ UNCHANGED fn_vars

\* lines 112-125
lemmatize_words ==
  /\ pc = "lemmatize_words"
  /\ df' = lemmatize_words_col(df)
  /\ trace' = Append(trace, "lemmatize_words")
  /\ pc' = main_next("lemmatize_words")
  /\ UNCHANGED <<argv, exit_status, inputs, data, loaded, bow>>
  /\ UNCHANGED fs_vars
  /\ UNCHANGED count_vars
  /\ UNCHANGED fn_vars

\* lines 127-134: the table is computed from the whole column and written
create_bow ==
  /\ pc = "create_bow"
  /\ bow' = value_counts(stack(df))
  /\ bow_csv' = [header |-> <<"word", "count">>, rows |-> bow']
  /\ written' = written \cup {"bow"}
  /\ trace' = Append(trace, "create_bow")
  /\ row' = 0
  /\ pc' = main_next("create_bow")
  /\ UNCHANGED <<argv, exit_status, output_dir_before, output_dir_exists, inputs,
                 data, loaded, df, types, all_tokens, txt_file>>
  /\ UNCHANGED fn_vars

\* lines 141-156: Series.apply calls count_tokens on the next row; after the
\* last row count_types_and_tokens returns
count_tokens ==
  /\ pc = "count_types_and_tokens"
  /\ row < Len(df)
  /\ LET st == count_tokens_loop([types |-> types, all_tokens |-> all_tokens],
                                 split(df[row + 1]))
     IN  /\ types' = st.types
         /\ all_tokens' = st.all_tokens
  /\ row' = row + 1
  /\ IF row + 1 = Len(df)
     THEN /\ trace' = Append(trace, "count_types_and_tokens")
          /\ pc' = main_next("count_types_and_tokens")
     ELSE UNCHANGED <<trace, pc>>
  /\ UNCHANGED <<argv, exit_status, inputs, data, loaded, df, bow>>
  /\ UNCHANGED fs_vars
  /\ UNCHANGED fn_vars

\* lines 175-177, then the script ends
main_write ==
  /\ pc = "write"
  /\ txt_file' = to_csv(df, 1)
  /\ written' = written \cup {"txt"}
  /\ trace' = Append(trace, "write")
  /\ pc' = main_next("write")
  /\ exit_status' = {0}
  /\ UNCHANGED <<argv, output_dir_before, output_dir_exists, inputs, data, loaded,
                 df, bow, bow_csv>>
  /\ UNCHANGED count_vars
  /\ UNCHANGED fn_vars

Next ==
  \/ init_mkdir
  \/ parse_args
  \/ init_read_csv
  \/ lowercase
  \/ remove_numbers
  \/ remove_punctuation
  \/ remove_stopwords
  \/ stem_words
  \/ lemmatize_words
  \/ create_bow
  \/ count_tokens
  \/ main_write

Spec == Init /\ [][Next]_vars

\* ---------------------------------------- remove_punctuation on its own
FnInit ==
  /\ fn_in \in FnStrings
  /\ fn_out = <<>>
  /\ fn_twice = <<>>
  /\ fn_pc = 0
  /\ argv = [stop |-> "absent", stem |-> "absent", lemma |-> "absent"]
  /\ output_dir_before = TRUE
  /\ output_dir_exists = TRUE
  /\ pc = "remove_punctuation_only"
  /\ exit_status = {}
  /\ written = {}
  /\ inputs = DefaultInputs
  /\ data = <<>>
  /\ loaded = FALSE
  /\ df = <<>>
  /\ trace = <<>>
  /\ row = 0
  /\ types = {}
  /\ all_tokens = EmptyDict
  /\ bow = <<>>
  /\ bow_csv = <<>>
  /\ txt_file = <<>>

\* lines 62-74 applied to the value fn_in
fn_remove_punctuation ==
  /\ fn_pc = 0
  /\ pc = "remove_punctuation_only"
  /\ fn_out' = remove_punctuation_str(fn_in)
  /\ fn_pc' = 1
  /\ UNCHANGED <<fn_in, fn_twice>>
  /\ UNCHANGED <<argv, pc, exit_status, inputs, data, loaded, df, trace, bow>>
  /\ UNCHANGED fs_vars
  /\ UNCHANGED count_vars

\* lines 62-74 applied to the value they returned
fn_remove_punctuation_again ==
  /\ fn_pc = 1
  /\ pc = "remove_punctuation_only"
  /\ fn_twice' = remove_punctuation_str(fn_out)
  /\ fn_pc' = 2
  /\ UNCHANGED <<fn_in, fn_out>>
  /\ UNCHANGED <<argv, pc, exit_status, inputs, data, loaded, df, trace, bow>>
  /\ UNCHANGED fs_vars
  /\ UNCHANGED count_vars

FnNext == fn_remove_punctuation \/ fn_remove_punctuation_again

FnSpec == FnInit /\ [][FnNext]_vars

\* ------------------------------------------------------------------ helpers
Range(q) == {q[i] : i \in 1..Len(q)}

IsPrefix(a, b) == Len(a) <= Len(b) /\ a = SubSeq(b, 1, Len(a))

RECURSIVE SumCounts(_)
SumCounts(entries) ==
  IF entries = <<>> THEN 0 ELSE Head(entries).count + SumCounts(Tail(entries))

RECURSIVE SumValues(_, _)
SumValues(f, keys) ==
  IF keys = {} THEN 0
  ELSE LET k == CHOOSE k \in keys : TRUE IN f[k] + SumValues(f, keys \ {k})

RECURSIVE TotalTokens(_)
TotalTokens(col) ==
  IF col = <<>> THEN 0 ELSE Len(split(Head(col))) + TotalTokens(Tail(col))

DistinctTokens(col) == UNION {Range(split(col[i])) : i \in 1..Len(col)}

RECURSIVE FileLines(_, _)
\* the lines of a file: the text before each line break
FileLines(content, cur) ==
  IF content = <<>> THEN (IF cur = <<>> THEN <<>> ELSE <<cur>>)
  ELSE IF Head(content) = NL THEN <<cur>> \o FileLines(Tail(content), <<>>)
  ELSE FileLines(Tail(content), Append(cur, Head(content)))

Transforms(inp) ==
  <<"lowercase", "remove_numbers", "remove_punctuation">>
  \o (IF inp.stop THEN <<"remove_stopwords">> ELSE <<>>)
  \o (IF inp.stem THEN <<"stem_words">> ELSE <<>>)
  \o (IF inp.lemma THEN <<"lemmatize_words">> ELSE <<>>)

ExpectedOrder(inp) ==
  Transforms(inp) \o <<"create_bow", "count_types_and_tokens", "write">>

StageFn(name, x) ==
  CASE name = "lowercase" -> lowercase_str(x)
    [] name = "remove_numbers" -> remove_numbers_str(x)
    [] name = "remove_punctuation" -> remove_punctuation_str(x)
    [] name = "remove_stopwords" -> remove_stop_words(x)
    [] name = "stem_words" -> stem_phrase(x)
    [] name = "lemmatize_words" -> lemmatize_phrase(x)
    [] OTHER -> x

RECURSIVE Derived(_, _)
\* the value the stages of tr, in order, make of x
Derived(x, tr) ==
  IF tr = <<>> THEN x ELSE Derived(StageFn(Head(tr), x), Tail(tr))

\* no three whitespace characters in a row
RunsAtMostTwo(x) ==
  \A i \in 1..(Len(x) - 2) :
    ~(x[i] \in WhiteSpace /\ x[i + 1] \in WhiteSpace /\ x[i + 2] \in WhiteSpace)

\* ------------------------------------------------------------------- claims

\* C1: when both --stem and --lemma are given the run ends at parse_args with
\* a non-zero exit status; data.csv is never read and no transform, no
\* counting pass, no bag-of-words write and no text write happens.
C1_ConflictAbortsBeforeRead ==
  (argv.stem = "on" /\ argv.lemma = "on") =>
    /\ pc \in {"mkdir", "parse_args", "exit"}
    /\ (pc = "exit" => exit_status # {} /\ 0 \notin exit_status)
    /\ ~loaded /\ df = <<>>
    /\ trace = <<>>
    /\ row = 0 /\ types = {} /\ all_tokens = EmptyDict
    /\ bow = <<>>
    /\ written = {}

C1_Witness ==
  argv.stem = "on" /\ argv.lemma = "on" /\ pc = "exit" /\ exit_status = {2}

\* C2: a run that passes parse_args runs lowercase, remove_numbers,
\* remove_punctuation, then remove_stopwords iff stop, then stem_words iff
\* stem or lemmatize_words iff lemma (never both), each once and in this
\* order, and create_bow, the counting pass and the text write only after the
\* last enabled transform.
C2_FixedStageOrder ==
  /\ ~(inputs.stem /\ inputs.lemma)
  /\ (pc \notin {"mkdir", "parse_args"} /\ exit_status # {2}) =>
       inputs = [stop |-> argv.stop = "on", stem |-> argv.stem = "on",
                 lemma |-> argv.lemma = "on"]
  /\ IsPrefix(trace, ExpectedOrder(inputs))
  /\ (exit_status = {0} => trace = ExpectedOrder(inputs))
  /\ (written # {} \/ bow # <<>> \/ row > 0 \/ types # {}) =>
       IsPrefix(Transforms(inputs), trace)

C2_Witness ==
  /\ exit_status = {0}
  /\ inputs.stop /\ inputs.lemma
  /\ trace = <<"lowercase", "remove_numbers", "remove_punctuation",
               "remove_stopwords", "lemmatize_words", "create_bow",
               "count_types_and_tokens", "write">>

\* C3: the text file written at the end of the run has exactly one line per
\* row, in row order, line i being the row index, a comma and the final text
\* of the row, also for rows whose text is empty or holds a line break.
C3_OneLinePerRow ==
  exit_status = {0} =>
    FileLines(txt_file, <<>>) =
      [i \in 1..Len(df) |-> decimal(i - 1) \o <<",">> \o df[i]]

\* C4: after a run the bag-of-words table of create_bow and the frequency map
\* of count_types_and_tokens hold the same multiset: one table row per
\* distinct token, each count equal to the map's, equal sums, rows in
\* non-increasing order of count.
C4_BowAgreesWithFrequencyMap ==
  exit_status = {0} =>
    /\ {bow[i].word : i \in 1..Len(bow)} = DOMAIN all_tokens
    /\ {bow[i].word : i \in 1..Len(bow)} = DistinctTokens(df)
    /\ Len(bow) = Cardinality(DOMAIN all_tokens)
    /\ \A i \in 1..Len(bow) : bow[i].count = all_tokens[bow[i].word]
    /\ SumCounts(bow) = SumValues(all_tokens, DOMAIN all_tokens)
    /\ \A i \in 1..(Len(bow) - 1) : bow[i].count >= bow[i + 1].count
    /\ bow_csv.rows = bow

C4_Witness ==
  /\ exit_status = {0}
  /\ Len(bow) >= 3
  /\ bow[1].count > bow[Len(bow)].count
  /\ \E i \in 1..(Len(bow) - 1) : bow[i].count = bow[i + 1].count

\* C5: after the counting pass the values of the frequency map sum to the
\* number of whitespace-split tokens of the column, the type set has one
\* element per distinct token and equals the key set of the map; during the
\* pass the type set only grows, no count decreases, and an empty row changes
\* nothing.
C5_TokenAccounting ==
  /\ [](/\ DOMAIN all_tokens = types
        /\ ("count_types_and_tokens" \in Range(trace)) =>
             /\ SumValues(all_tokens, DOMAIN all_tokens) = TotalTokens(df)
             /\ Cardinality(types) = Cardinality(DistinctTokens(df))
             /\ types = DistinctTokens(df))
  /\ [][/\ types \subseteq types'
        /\ \A t \in DOMAIN all_tokens :
             t \in DOMAIN all_tokens' /\ all_tokens'[t] >= all_tokens[t]
        /\ (pc = "count_types_and_tokens" /\ row' = row + 1
              /\ split(df[row + 1]) = <<>>) =>
             (types' = types /\ all_tokens' = all_tokens)]_vars

C5_Witness ==
  /\ pc = "write"
  /\ \E t \in DOMAIN all_tokens : all_tokens[t] >= 2
  /\ Cardinality(types) >= 2
  /\ \E i \in 1..Len(df) : df[i] = <<>>

\* C6: from loading to the end of the run the text column has as many entries
\* as the input has rows, and entry i is what the stages run so far make of
\* input row i: no stage drops, adds or reorders a row, even one it empties.
C6_RowsPreserved ==
  loaded =>
    /\ Len(df) = Len(data)
    /\ \A i \in 1..Len(data) : df[i] = Derived(data[i], trace)

C6_Witness ==
  /\ "remove_stopwords" \in Range(trace)
  /\ Len(df) = 2
  /\ data[1] # <<>> /\ df[1] = <<>>
  /\ df[2] # <<>>

\* C7: in the value remove_punctuation returns every hyphen has a word
\* character right before it and right after it.
C7_HyphensFlanked ==
  fn_pc >= 1 =>
    \A i \in 1..Len(fn_out) :
      fn_out[i] = "-" =>
        /\ i > 1 /\ fn_out[i - 1] \in WordChars
        /\ i < Len(fn_out) /\ fn_out[i + 1] \in WordChars

\* C8 as stated: remove_punctuation applied to its own result returns it
\* unchanged, for every input.
C8_Idempotent == fn_pc = 2 => fn_twice = fn_out

\* C8 amended: remove_punctuation applied to its own result returns it
\* unchanged exactly when the input, once its punctuation is deleted, has no
\* run of three or more whitespace characters.
C8_IdempotentOnShortRuns ==
  fn_pc = 2 => ((fn_twice = fn_out) <=> RunsAtMostTwo(sub_pattern(fn_in, 1)))

C8_Witness ==
  /\ fn_pc = 2
  /\ RunsAtMostTwo(sub_pattern(fn_in, 1))
  /\ \E i \in 1..Len(fn_in) : pattern(fn_in, i)
  /\ \E i \in 1..Len(fn_in) : double_space_re(sub_pattern(fn_in, 1), i)
  /\ fn_twice = fn_out

\* C9 as stated: with default flags lowercase, remove_numbers and
\* remove_punctuation make exactly "ad" of "AD 1530-1".
C9_YieldsAd ==
  \A i \in 1..Len(df) :
    (data[i] = AD1530 /\ inputs = DefaultInputs
       /\ "remove_punctuation" \in Range(trace)) =>
      df[i] = <<"a", "d">>

\* C9 amended: with default flags lowercase, remove_numbers and
\* remove_punctuation make "ad " of "AD 1530-1": the digits and the hyphen
\* are gone, the space that followed "AD" stays, and "ad" is the only token.
C9_YieldsAdSpace ==
  \A i \in 1..Len(df) :
    (data[i] = AD1530 /\ inputs = DefaultInputs
       /\ "remove_punctuation" \in Range(trace)) =>
      /\ df[i] = <<"a", "d", " ">>
      /\ split(df[i]) = << <<"a", "d">> >>

C9_Witness ==
  /\ Len(df) >= 1
  /\ data[1] = AD1530
  /\ inputs = DefaultInputs
  /\ trace = <<"lowercase", "remove_numbers", "remove_punctuation">>

\* C10 as stated: a run rejected for the stem/lemma conflict leaves the
\* filesystem as it was: no output directory made, no file written.
C10_FilesystemUnchanged ==
  exit_status = {2} =>
    /\ output_dir_exists = output_dir_before
    /\ written = {}

\* C10 amended: a run given both options of the stem/lemma group writes no
\* file, and when it is rejected the output directory exists, made by
\* __init__ before the flags are parsed if it was absent.
C10_NoFileButDirectory ==
  /\ parse_conflict(argv) => (written = {} /\ bow_csv = <<>> /\ txt_file = <<>>)
  /\ exit_status = {2} => (parse_conflict(argv) /\ output_dir_exists)

C10_Witness ==
  exit_status = {2} /\ ~output_dir_before /\ output_dir_exists /\ written = {}

====
